---- MODULE Spec2Model ----
(***************************************************************************)
(* GenRoadmapReport: the row-to-hierarchy reducer (process_data) and the   *)
(* report renderer (add_content and its helpers), with the pipeline of     *)
(* main around them.                                                       *)
(*                                                                         *)
(* A Python dict is an insertion-ordered mapping: it is modelled as a      *)
(* sequence of entries [k |-> key, v |-> value] with pairwise distinct     *)
(* keys; assigning to a key that is present replaces the value in place,   *)
(* assigning to a new key appends the entry.                               *)
(* A variable that holds None or a string is modelled as a sequence of     *)
(* length 0 (None) or 1 (the string).                                      *)
(***************************************************************************)
EXTENDS Integers, Sequences, FiniteSets, TLC

VARIABLES
    data,                \* the rows read from the Excel file (list of dicts)
    i,                   \* number of rows the for loop of process_data has consumed
    structured_data,     \* process_data: the hierarchy being built
    current_theme,       \* process_data: cursors
    current_goal,
    current_status,
    current_initiative,
    warnings,            \* the logging.warning calls of process_data, in order
    pc,                  \* position of the program
    raised,              \* "" or the name of the exception that aborted the run
    include_todo,        \* the flag of the current report
    doc,                 \* the render instructions added to the document
    success,             \* result of save_document for the current report
    log                  \* what main did after each save, in order

vars == <<data, i, structured_data, current_theme, current_goal, current_status,
          current_initiative, warnings, pc, raised, include_todo, doc, success, log>>

-----------------------------------------------------------------------------
(* Bounds of the model *)

\* longest row sequence handed to process_data
MaxLen == 5

\* longest tail of rows that follows the opening Theme and Goal rows in the
\* inputs of the rendering specification
MaxTail == 4

\* longest row sequence over the rows of every kind together
MaxAny == 4

\* longest row sequence in the runs of main
MaxMain == 3
MaxDates == 2
MaxDup == 4
MaxWalk == 4

-----------------------------------------------------------------------------
(* Python values *)

None == <<>>

Some(x) == <<x>>

\* bool(x) for x None or a string: None and '' are falsy
Truthy(x) == x # None /\ x[1] # ""

\* k in d
Has(d, k) == \E n \in 1..Len(d) : d[n].k = k

Idx(d, k) == CHOOSE n \in 1..Len(d) : d[n].k = k

\* d[k], for k in d
Get(d, k) == d[Idx(d, k)].v

\* d[k] = v in a mapping that moves an assigned key to the end
PutLast(d, k, v) ==
    Append(SelectSeq(d, LAMBDA e : e.k # k), [k |-> k, v |-> v])

\* d[k] = v
Put(d, k, v) ==
    IF Has(d, k) THEN [d EXCEPT ![Idx(d, k)] = [k |-> k, v |-> v]]
    ELSE Append(d, [k |-> k, v |-> v])

\* list(d.keys())
Keys(d) == [n \in 1..Len(d) |-> d[n].k]

-----------------------------------------------------------------------------
(* Rows *)

\* a row of the sheet after fillna('').astype(str): every column is a string
Row(type, key, summary, status, start) ==
    [issue_type |-> type, key |-> key, summary |-> summary, hebrew_summary |-> "",
     status |-> status, description |-> "", start_date |-> start, due_date |-> ""]

END_SENTINEL == "Not an issue"

IsSentinel(row) == row.issue_type = "" /\ row.summary = END_SENTINEL

-----------------------------------------------------------------------------
(* process_data *)

\* the local state of process_data before the first row
InitialState ==
    [structured_data |-> <<>>, current_theme |-> None, current_goal |-> None,
     current_status |-> None, current_initiative |-> None, warnings |-> <<>>,
     stop |-> FALSE, raised |-> ""]

KeyError(st) == [st EXCEPT !.raised = "KeyError"]

Warn(st, msg, key) == [st EXCEPT !.warnings = Append(@, [msg |-> msg, key |-> key])]

\* the Theme branch leaving the goal cursor as it was
ThemeRowKeepsGoal(st, row) ==
    [st EXCEPT !.current_theme = Some(row.key),
               !.structured_data = Put(@, row.key,
                    [summary |-> row.summary, hebrew_summary |-> row.hebrew_summary,
                     goals |-> <<>>]),
               !.current_status = None,
               !.current_initiative = None]

\* the Theme branch keeping the goals of a Theme that is already there
ThemeRowMerge(st, row) ==
    [st EXCEPT !.current_theme = Some(row.key),
               !.structured_data = Put(@, row.key,
                    [summary |-> row.summary, hebrew_summary |-> row.hebrew_summary,
                     goals |-> IF Has(st.structured_data, row.key)
                               THEN Get(st.structured_data, row.key).goals ELSE <<>>]),
               !.current_goal = None,
               !.current_status = None,
               !.current_initiative = None]

\* if issue_type == 'Theme':
ThemeRow(st, row) ==
    [st EXCEPT !.current_theme = Some(row.key),
               !.structured_data = Put(@, row.key,
                    [summary |-> row.summary, hebrew_summary |-> row.hebrew_summary,
                     goals |-> <<>>]),
               !.current_goal = None,
               !.current_status = None,
               !.current_initiative = None]

\* the Goal branch setting the goal cursor before it tests the theme cursor
GoalRowEarlyCursor(st, row) ==
    IF Truthy(st.current_theme) THEN
        LET t == st.current_theme[1]
            sd == st.structured_data
        IN  IF ~Has(sd, t) THEN KeyError(st)
            ELSE LET theme == Get(sd, t)
                     goal == [summary |-> row.summary,
                              hebrew_summary |-> row.hebrew_summary,
                              description |-> row.description,
                              statuses |-> <<>>]
                 IN  [st EXCEPT !.current_goal = Some(row.key),
                                !.structured_data =
                                    Put(sd, t, [theme EXCEPT !.goals = Put(@, row.key, goal)]),
                                !.current_status = None,
                                !.current_initiative = None]
    ELSE Warn([st EXCEPT !.current_goal = Some(row.key)],
              "Goal found without a current theme", row.key)

\* the Goal branch without the reset of the status and initiative cursors
GoalRowNoReset(st, row) ==
    IF Truthy(st.current_theme) THEN
        LET t == st.current_theme[1]
            sd == st.structured_data
        IN  IF ~Has(sd, t) THEN KeyError(st)
            ELSE LET theme == Get(sd, t)
                     goal == [summary |-> row.summary,
                              hebrew_summary |-> row.hebrew_summary,
                              description |-> row.description,
                              statuses |-> <<>>]
                 IN  [st EXCEPT !.current_goal = Some(row.key),
                                !.structured_data =
                                    Put(sd, t, [theme EXCEPT !.goals = Put(@, row.key, goal)])]
    ELSE Warn(st, "Goal found without a current theme", row.key)

\* elif issue_type == 'Goal':
GoalRow(st, row) ==
    IF Truthy(st.current_theme) THEN
        LET t == st.current_theme[1]
            sd == st.structured_data
        IN  IF ~Has(sd, t) THEN KeyError(st)
            ELSE LET theme == Get(sd, t)
                     goal == [summary |-> row.summary,
                              hebrew_summary |-> row.hebrew_summary,
                              description |-> row.description,
                              statuses |-> <<>>]
                 IN  [st EXCEPT !.current_goal = Some(row.key),
                                !.structured_data =
                                    Put(sd, t, [theme EXCEPT !.goals = Put(@, row.key, goal)]),
                                !.current_status = None,
                                !.current_initiative = None]
    ELSE Warn(st, "Goal found without a current theme", row.key)

\* the Initiative branch setting its cursors before it tests the theme and goal
InitiativeRowEarlyCursor(st, row) ==
    IF Truthy(st.current_theme) /\ Truthy(st.current_goal) THEN
        LET t == st.current_theme[1]
            g == st.current_goal[1]
            sd == st.structured_data
        IN  IF ~Has(sd, t) THEN KeyError(st)
            ELSE IF ~Has(Get(sd, t).goals, g) THEN KeyError(st)
            ELSE LET theme == Get(sd, t)
                     goal == Get(theme.goals, g)
                     statuses == IF Has(goal.statuses, row.status) THEN goal.statuses
                                 ELSE Put(goal.statuses, row.status, <<>>)
                     initiative == [summary |-> row.summary,
                                    hebrew_summary |-> row.hebrew_summary,
                                    description |-> row.description,
                                    start_date |-> row.start_date,
                                    due_date |-> row.due_date,
                                    leads |-> <<>>]
                     group == Put(Get(statuses, row.status), row.key, initiative)
                     goal2 == [goal EXCEPT !.statuses = Put(statuses, row.status, group)]
                     theme2 == [theme EXCEPT !.goals = Put(@, g, goal2)]
                 IN  [st EXCEPT !.current_status = Some(row.status),
                                !.current_initiative = Some(row.key),
                                !.structured_data = Put(sd, t, theme2)]
    ELSE Warn([st EXCEPT !.current_status = Some(row.status),
                         !.current_initiative = Some(row.key)],
              "Initiative found without a current theme and goal", row.key)

\* the Initiative branch filing the node under the status cursor of the row before
InitiativeRowStaleStatus(st, row) ==
    IF Truthy(st.current_theme) /\ Truthy(st.current_goal) THEN
        LET t == st.current_theme[1]
            g == st.current_goal[1]
            s == IF st.current_status # None THEN st.current_status[1] ELSE row.status
            sd == st.structured_data
        IN  IF ~Has(sd, t) THEN KeyError(st)
            ELSE IF ~Has(Get(sd, t).goals, g) THEN KeyError(st)
            ELSE LET theme == Get(sd, t)
                     goal == Get(theme.goals, g)
                     statuses == IF Has(goal.statuses, s) THEN goal.statuses
                                 ELSE Put(goal.statuses, s, <<>>)
                     initiative == [summary |-> row.summary,
                                    hebrew_summary |-> row.hebrew_summary,
                                    description |-> row.description,
                                    start_date |-> row.start_date,
                                    due_date |-> row.due_date,
                                    leads |-> <<>>]
                     group == Put(Get(statuses, s), row.key, initiative)
                     goal2 == [goal EXCEPT !.statuses = Put(statuses, s, group)]
                     theme2 == [theme EXCEPT !.goals = Put(@, g, goal2)]
                 IN  [st EXCEPT !.current_status = Some(row.status),
                                !.current_initiative = Some(row.key),
                                !.structured_data = Put(sd, t, theme2)]
    ELSE Warn(st, "Initiative found without a current theme and goal", row.key)

\* elif issue_type == 'Initiative':
InitiativeRow(st, row) ==
    IF Truthy(st.current_theme) /\ Truthy(st.current_goal) THEN
        LET t == st.current_theme[1]
            g == st.current_goal[1]
            sd == st.structured_data
        IN  IF ~Has(sd, t) THEN KeyError(st)
            ELSE IF ~Has(Get(sd, t).goals, g) THEN KeyError(st)
            ELSE LET theme == Get(sd, t)
                     goal == Get(theme.goals, g)
                     statuses == IF Has(goal.statuses, row.status) THEN goal.statuses
                                 ELSE Put(goal.statuses, row.status, <<>>)
                     initiative == [summary |-> row.summary,
                                    hebrew_summary |-> row.hebrew_summary,
                                    description |-> row.description,
                                    start_date |-> row.start_date,
                                    due_date |-> row.due_date,
                                    leads |-> <<>>]
                     group == Put(Get(statuses, row.status), row.key, initiative)
                     goal2 == [goal EXCEPT !.statuses = Put(statuses, row.status, group)]
                     theme2 == [theme EXCEPT !.goals = Put(@, g, goal2)]
                 IN  [st EXCEPT !.current_status = Some(row.status),
                                !.current_initiative = Some(row.key),
                                !.structured_data = Put(sd, t, theme2)]
    ELSE Warn(st, "Initiative found without a current theme and goal", row.key)

\* the Lead branch testing the theme and goal cursors only
LeadRowWeakGuard(st, row) ==
    IF Truthy(st.current_theme) /\ Truthy(st.current_goal) THEN
        LET sd == st.structured_data
            t == st.current_theme[1]
            g == st.current_goal[1]
        IN  IF st.current_status = None \/ st.current_initiative = None THEN KeyError(st)
            ELSE IF ~Has(sd, t) THEN KeyError(st)
            ELSE IF ~Has(Get(sd, t).goals, g) THEN KeyError(st)
            ELSE IF ~Has(Get(Get(sd, t).goals, g).statuses, st.current_status[1])
                 THEN KeyError(st)
            ELSE IF ~Has(Get(Get(Get(sd, t).goals, g).statuses, st.current_status[1]),
                         st.current_initiative[1])
                 THEN KeyError(st)
            ELSE LET s == st.current_status[1]
                     n == st.current_initiative[1]
                     theme == Get(sd, t)
                     goal == Get(theme.goals, g)
                     group == Get(goal.statuses, s)
                     initiative == Get(group, n)
                     lead == [summary |-> row.summary,
                              hebrew_summary |-> row.hebrew_summary,
                              description |-> row.description]
                     initiative2 == [initiative EXCEPT !.leads = Put(@, row.key, lead)]
                     goal2 == [goal EXCEPT !.statuses = Put(@, s, Put(group, n, initiative2))]
                     theme2 == [theme EXCEPT !.goals = Put(@, g, goal2)]
                 IN  [st EXCEPT !.structured_data = Put(sd, t, theme2)]
    ELSE Warn(st, "Lead found without a current theme, goal, status, and initiative", row.key)

\* elif issue_type == 'Lead':
LeadRow(st, row) ==
    IF /\ Truthy(st.current_theme) /\ Truthy(st.current_goal)
       /\ Truthy(st.current_status) /\ Truthy(st.current_initiative) THEN
        LET t == st.current_theme[1]
            g == st.current_goal[1]
            s == st.current_status[1]
            n == st.current_initiative[1]
            sd == st.structured_data
        IN  IF ~Has(sd, t) THEN KeyError(st)
            ELSE IF ~Has(Get(sd, t).goals, g) THEN KeyError(st)
            ELSE IF ~Has(Get(Get(sd, t).goals, g).statuses, s) THEN KeyError(st)
            ELSE IF ~Has(Get(Get(Get(sd, t).goals, g).statuses, s), n) THEN KeyError(st)
            ELSE LET theme == Get(sd, t)
                     goal == Get(theme.goals, g)
                     group == Get(goal.statuses, s)
                     initiative == Get(group, n)
                     lead == [summary |-> row.summary,
                              hebrew_summary |-> row.hebrew_summary,
                              description |-> row.description]
                     initiative2 == [initiative EXCEPT !.leads = Put(@, row.key, lead)]
                     goal2 == [goal EXCEPT !.statuses = Put(@, s, Put(group, n, initiative2))]
                     theme2 == [theme EXCEPT !.goals = Put(@, g, goal2)]
                 IN  [st EXCEPT !.structured_data = Put(sd, t, theme2)]
    ELSE Warn(st, "Lead found without a current theme, goal, status, and initiative", row.key)

\* an untyped row that never ends the pass
EmptyRowNoBreak(st, row) == st

\* elif issue_type == '':
EmptyRow(st, row) ==
    IF row.summary = END_SENTINEL THEN [st EXCEPT !.stop = TRUE] ELSE st

\* else:
UnknownRow(st, row) == Warn(st, "Unknown issue type " \o row.issue_type, row.key)

\* the body of the for loop, for one row
LoopBody(st, row) ==
    CASE row.issue_type = "Theme" -> ThemeRow(st, row)
      [] row.issue_type = "Goal" -> GoalRow(st, row)
      [] row.issue_type = "Initiative" -> InitiativeRow(st, row)
      [] row.issue_type = "Lead" -> LeadRow(st, row)
      [] row.issue_type = "" -> EmptyRow(st, row)
      [] OTHER -> UnknownRow(st, row)

RECURSIVE RunLoop(_, _, _)
\* the for loop from row n+1 on, started in local state st
RunLoop(st, rows, n) ==
    IF n >= Len(rows) \/ st.stop \/ st.raised # "" THEN st
    ELSE RunLoop(LoopBody(st, rows[n + 1]), rows, n + 1)

\* process_data(rows): the local state when the function returns (or raises)
process_data(rows) == RunLoop(InitialState, rows, 0)

\* the local state of the running process_data, as a record
Cur ==
    [structured_data |-> structured_data, current_theme |-> current_theme,
     current_goal |-> current_goal, current_status |-> current_status,
     current_initiative |-> current_initiative, warnings |-> warnings,
     stop |-> FALSE, raised |-> ""]

-----------------------------------------------------------------------------
(* Actions *)

\* one iteration of "for row in data" (a break returns at once)
ProcessRow ==
    /\ pc = "process_data"
    /\ i < Len(data)
    /\ LET st == LoopBody(Cur, data[i + 1])
       IN  /\ structured_data' = st.structured_data
           /\ current_theme' = st.current_theme
           /\ current_goal' = st.current_goal
           /\ current_status' = st.current_status
           /\ current_initiative' = st.current_initiative
           /\ warnings' = st.warnings
           /\ raised' = st.raised
           /\ pc' = IF st.raised # "" THEN "raised"
                    ELSE IF st.stop THEN "returned"
                    ELSE "process_data"
    /\ i' = i + 1
    /\ UNCHANGED <<data, include_todo, doc, success, log>>

\* the loop is exhausted: return structured_data
ProcessReturn ==
    /\ pc = "process_data"
    /\ i = Len(data)
    /\ pc' = "returned"
    /\ UNCHANGED <<data, i, structured_data, current_theme, current_goal, current_status,
                   current_initiative, warnings, raised, include_todo, doc, success, log>>

-----------------------------------------------------------------------------
(* Rendering *)

\* strptime(date_str, "%Y-%m-%d %H:%M:%S") followed by strftime("%d %b %Y"),
\* on the timestamps the model uses; every other string raises ValueError
Strptime ==
    [s \in {"2024-01-15 00:00:00", "2024-12-01 09:30:00"} |->
        IF s = "2024-01-15 00:00:00" THEN "15 Jan 2024" ELSE "01 Dec 2024"]

\* format_date without the fallback to the string it was given
format_date_no_fallback(date_str) ==
    IF date_str \in DOMAIN Strptime THEN Strptime[date_str] ELSE "Invalid date"

format_date(date_str) ==
    IF date_str \in DOMAIN Strptime THEN Strptime[date_str] ELSE date_str

\* the text between the RTL embedding mark U+202B and the pop mark U+202C
format_hebrew_text(text) == "<U+202B>" \o text \o "<U+202C>"

Heading(level, text, link) == [op |-> "heading", level |-> level, text |-> text, link |-> link]

Paragraph(text) == [op |-> "paragraph", text |-> text]

\* a status list with To Do always in it
status_order_always(flag) == <<"Done", "In Progress", "Next", "To Do">>

\* a status list in another order
status_order_swapped(flag) ==
    IF flag THEN <<"In Progress", "Done", "Next", "To Do">>
    ELSE <<"In Progress", "Done", "Next">>

\* status_order of add_content
status_order(flag) ==
    IF flag THEN <<"Done", "In Progress", "Next", "To Do">>
    ELSE <<"Done", "In Progress", "Next">>

\* the table row of one initiative
add_initiative_to_table(initiative_key, initiative_data) ==
    [title |-> initiative_data.summary,
     link |-> initiative_key,
     hebrew |-> format_hebrew_text(initiative_data.hebrew_summary),
     start_date |-> IF initiative_data.start_date # ""
                    THEN format_date(initiative_data.start_date) ELSE "Unknown",
     due_date |-> IF initiative_data.due_date # ""
                  THEN format_date(initiative_data.due_date) ELSE "Unknown",
     description |-> format_hebrew_text(initiative_data.description),
     leads |-> [n \in 1..Len(initiative_data.leads) |->
                  [text |-> format_hebrew_text(initiative_data.leads[n].v.summary),
                   link |-> initiative_data.leads[n].k]]]

\* the heading and the table of one status group, added to the document d
add_status_table(d, status, initiatives) ==
    d \o <<Heading(3, "Status: " \o status, None),
           [op |-> "table",
            rows |-> [n \in 1..Len(initiatives) |->
                        add_initiative_to_table(initiatives[n].k, initiatives[n].v)]],
           Paragraph("")>>

\* add_theme_goal_content that does not record the headers it has written
add_theme_goal_content_unrecorded(rs, theme_key, theme_data, goal_key, goal_data, status) ==
    LET d1 == IF ~rs.theme_printed
              THEN rs.doc \o <<Heading(1, theme_data.summary, Some(theme_key)),
                               Paragraph(format_hebrew_text(theme_data.hebrew_summary))>>
              ELSE rs.doc
        d2 == IF ~rs.goal_printed
              THEN d1 \o <<Heading(2, goal_data.summary, Some(goal_key)),
                           Paragraph(format_hebrew_text(goal_data.hebrew_summary))>>
              ELSE d1
    IN  [doc |-> add_status_table(d2, status, Get(goal_data.statuses, status)),
         theme_printed |-> rs.theme_printed, goal_printed |-> rs.goal_printed]

\* rs = [doc, theme_printed, goal_printed]
add_theme_goal_content(rs, theme_key, theme_data, goal_key, goal_data, status) ==
    LET d1 == IF ~rs.theme_printed
              THEN rs.doc \o <<Heading(1, theme_data.summary, Some(theme_key)),
                               Paragraph(format_hebrew_text(theme_data.hebrew_summary))>>
              ELSE rs.doc
        d2 == IF ~rs.goal_printed
              THEN d1 \o <<Heading(2, goal_data.summary, Some(goal_key)),
                           Paragraph(format_hebrew_text(goal_data.hebrew_summary))>>
              ELSE d1
    IN  [doc |-> add_status_table(d2, status, Get(goal_data.statuses, status)),
         theme_printed |-> TRUE, goal_printed |-> TRUE]

RECURSIVE StatusLoop(_, _, _, _, _, _, _)
\* for status in status_order: from the entry n+1 of the list on
StatusLoop(rs, theme_key, theme_data, goal_key, goal_data, order, n) ==
    IF n >= Len(order) THEN rs
    ELSE LET status == order[n + 1]
             rs2 == IF /\ Has(goal_data.statuses, status)
                       /\ Get(goal_data.statuses, status) # <<>>
                    THEN add_theme_goal_content(rs, theme_key, theme_data,
                                                goal_key, goal_data, status)
                    ELSE rs
         IN  StatusLoop(rs2, theme_key, theme_data, goal_key, goal_data, order, n + 1)

RECURSIVE GoalLoop(_, _, _, _, _)
\* for goal_key, goal_data in theme_data['goals'].items(): from the entry n+1 on
GoalLoop(rs, theme_key, theme_data, order, n) ==
    IF n >= Len(theme_data.goals) THEN rs
    ELSE LET e == theme_data.goals[n + 1]
             rs2 == StatusLoop([rs EXCEPT !.goal_printed = FALSE],
                               theme_key, theme_data, e.k, e.v, order, 0)
         IN  GoalLoop(rs2, theme_key, theme_data, order, n + 1)

RECURSIVE ThemeLoop(_, _, _, _)
\* for theme_key, theme_data in structured_data.items(): from the entry n+1 on
ThemeLoop(d, sd, order, n) ==
    IF n >= Len(sd) THEN d
    ELSE LET e == sd[n + 1]
             rs == GoalLoop([doc |-> d, theme_printed |-> FALSE, goal_printed |-> FALSE],
                            e.k, e.v, order, 0)
         IN  ThemeLoop(rs.doc, sd, order, n + 1)

\* add_content(doc, structured_data, include_todo): the document afterwards
add_content(d, sd, flag) == ThemeLoop(d, sd, status_order(flag), 0)

\* what setup_document adds to the template: cover page, table of contents field
setup_document ==
    <<Heading(0, "Roadmap Status Report", None), Paragraph(""), Paragraph("Date"),
      Paragraph("Prepared by"), [op |-> "page_break"],
      Heading(0, "Roadmap Status Report", None), Paragraph("Table of Contents"),
      [op |-> "toc_field"], Paragraph("Update Field reminder")>>

\* what doc.save(output_file_path) does: it returns, or it raises
SaveOutcomes == {"saved", "PermissionError", "Exception"}

\* save_document returning True after an exception other than PermissionError
save_document_swallow(outcome) == outcome # "PermissionError"

\* save_document: False after PermissionError or any other exception, else True
save_document(outcome) ==
    CASE outcome = "PermissionError" -> FALSE
      [] outcome = "Exception" -> FALSE
      [] OTHER -> TRUE

\* the hierarchy with the status groups of every Goal taken out
WithoutGroups(sd) ==
    [a \in 1..Len(sd) |->
        LET goals == sd[a].v.goals
        IN  [sd[a] EXCEPT !.v.goals =
                [b \in 1..Len(goals) |-> [goals[b] EXCEPT !.v.statuses = <<>>]]]]

\* create_word_document with a walk that takes each group out of the hierarchy
CreateWordDocumentConsuming ==
    /\ pc = "returned"
    /\ doc' = add_content(setup_document, structured_data, include_todo)
    /\ structured_data' = WithoutGroups(structured_data)
    /\ \E outcome \in SaveOutcomes :
          /\ success' = save_document(outcome)
          /\ log' = Append(log, [step |-> "save_document", include_todo |-> include_todo,
                                 outcome |-> outcome])
    /\ pc' = "created"
    /\ UNCHANGED <<data, i, current_theme, current_goal, current_status,
                   current_initiative, warnings, raised, include_todo>>

\* create_word_document: set the document up, add the content, save it; the
\* call of save_document and what doc.save did go into the log
CreateWordDocument ==
    /\ pc = "returned"
    /\ doc' = add_content(setup_document, structured_data, include_todo)
    /\ \E outcome \in SaveOutcomes :
          /\ success' = save_document(outcome)
          /\ log' = Append(log, [step |-> "save_document", include_todo |-> include_todo,
                                 outcome |-> outcome])
    /\ pc' = "created"
    /\ UNCHANGED <<data, i, structured_data, current_theme, current_goal, current_status,
                   current_initiative, warnings, raised, include_todo>>

-----------------------------------------------------------------------------
(* main *)

\* main before process_data: no rows read from the file ends the run
MainStart ==
    /\ pc = "main"
    /\ pc' = IF data = <<>> THEN "exit" ELSE "process_data"
    /\ UNCHANGED <<data, i, structured_data, current_theme, current_goal, current_status,
                   current_initiative, warnings, raised, include_todo, doc, success, log>>

\* if success: update_toc(output_file_path_docx)
UpdateToc ==
    /\ pc = "created"
    /\ success
    /\ log' = Append(log, [step |-> "update_toc", include_todo |-> include_todo])
    /\ pc' = "toc_updated"
    /\ UNCHANGED <<data, i, structured_data, current_theme, current_goal, current_status,
                   current_initiative, warnings, raised, include_todo, doc, success>>

\* convert_docx_to_pdf(output_file_path_docx, output_file_path_pdf)
ConvertDocxToPdf ==
    /\ pc = "toc_updated"
    /\ log' = Append(log, [step |-> "convert_docx_to_pdf", include_todo |-> include_todo])
    /\ pc' = "report_done"
    /\ UNCHANGED <<data, i, structured_data, current_theme, current_goal, current_status,
                   current_initiative, warnings, raised, include_todo, doc, success>>

\* else: logging.error("Failed to create Word document. ...")
ReportFailure ==
    /\ pc = "created"
    /\ ~success
    /\ log' = Append(log, [step |-> "failed", include_todo |-> include_todo])
    /\ pc' = "report_done"
    /\ UNCHANGED <<data, i, structured_data, current_theme, current_goal, current_status,
                   current_initiative, warnings, raised, include_todo, doc, success>>

\* for include_todo in [False, True]: the next report starts with process_data
NextReport ==
    /\ pc = "report_done"
    /\ IF include_todo
       THEN /\ pc' = "exit"
            /\ UNCHANGED <<i, structured_data, current_theme, current_goal, current_status,
                           current_initiative, warnings, include_todo, doc, success>>
       ELSE /\ pc' = "process_data"
            /\ include_todo' = TRUE
            /\ i' = 0
            /\ structured_data' = <<>>
            /\ current_theme' = None
            /\ current_goal' = None
            /\ current_status' = None
            /\ current_initiative' = None
            /\ warnings' = <<>>
            /\ doc' = <<>>
            /\ success' = FALSE
    /\ UNCHANGED <<data, raised, log>>

-----------------------------------------------------------------------------
(* Inputs *)

\* all sequences over S of length at most n
SeqsUpTo(S, n) == UNION {[1..m -> S] : m \in 0..n}

\* rows in any order, with empty keys and an empty status
OrderRows ==
    {Row("Theme", "T1", "theme", "", ""), Row("Theme", "", "theme", "", ""),
     Row("Goal", "G1", "goal", "", ""),
     Row("Initiative", "I1", "init", "Done", ""), Row("Initiative", "I1", "init", "", ""),
     Row("Initiative", "I2", "init", "To Do", ""),
     Row("Lead", "L1", "lead", "", "")}

\* rows in any order, with untyped rows and an unknown issue type
SkipRows ==
    {Row("Theme", "T1", "theme", "", ""), Row("Goal", "G1", "goal", "", ""),
     Row("Initiative", "I1", "init", "Done", ""), Row("Lead", "L1", "lead", "", ""),
     Row("", "", END_SENTINEL, "", ""), Row("", "", "", "", ""),
     Row("Epic", "E1", "epic", "", "")}

\* the state when process_data is entered with the rows d
Start(d, flag) ==
    /\ data = d
    /\ i = 0
    /\ structured_data = <<>>
    /\ current_theme = None
    /\ current_goal = None
    /\ current_status = None
    /\ current_initiative = None
    /\ warnings = <<>>
    /\ pc = "process_data"
    /\ raised = ""
    /\ include_todo = flag
    /\ doc = <<>>
    /\ success = FALSE
    /\ log = <<>>

InitOrder == \E d \in SeqsUpTo(OrderRows, MaxLen) : Start(d, FALSE)

InitSkip == \E d \in SeqsUpTo(SkipRows, MaxLen) : Start(d, FALSE)

\* rows after an opening Theme and Goal, with every status label of the renderer
\* and one it does not know
RenderRows ==
    {Row("Initiative", "I1", "one", "Done", "2024-01-15 00:00:00"),
     Row("Initiative", "I2", "two", "To Do", "N/A"),
     Row("Initiative", "I3", "three", "Next", ""),
     Row("Initiative", "I4", "four", "In Progress", ""),
     Row("Initiative", "I5", "five", "Blocked", ""),
     Row("Lead", "L1", "lead", "", ""),
     Row("Goal", "G2", "goal two", "", ""),
     Row("Theme", "T2", "theme two", "", "")}

InitRender ==
    \E tail \in SeqsUpTo(RenderRows, MaxTail), flag \in BOOLEAN :
        Start(<<Row("Theme", "T1", "theme one", "", ""),
                Row("Goal", "G1", "goal one", "", "")>> \o tail, flag)

\* date cells: empty, text, a date without time, a month 13, a timestamp
DateStrings == {"", "N/A", "2024-01-15", "2024-13-01 00:00:00", "2024-01-15 00:00:00"}

\* an Initiative row with both date cells
DatedRow(key, status, start, due) ==
    [Row("Initiative", key, "init", status, start) EXCEPT !.due_date = due]

\* Initiative rows with every pair of date cells
DateRows ==
    {DatedRow("I1", "Done", start, due) : start \in DateStrings, due \in DateStrings}
    \cup {DatedRow("I2", "Next", "N/A", "2024-12-01 09:30:00")}

InitDates ==
    \E tail \in SeqsUpTo(DateRows, MaxDates) :
        Start(<<Row("Theme", "T1", "theme one", "", ""),
                Row("Goal", "G1", "goal one", "", "")>> \o tail, FALSE)

\* rows that repeat a key with another summary
DupRows ==
    {Row("Theme", "T1", "a", "", ""), Row("Theme", "T1", "b", "", ""),
     Row("Goal", "G1", "a", "", ""), Row("Goal", "G1", "b", "", ""),
     Row("Initiative", "I1", "a", "Done", ""), Row("Initiative", "I1", "b", "Done", "N/A"),
     Row("Initiative", "I1", "a", "Next", ""),
     Row("Lead", "L1", "a", "", ""), Row("Lead", "L1", "b", "", "")}

InitDup ==
    \E tail \in SeqsUpTo(DupRows, MaxDup) :
        Start(<<Row("Theme", "T1", "a", "", ""), Row("Goal", "G1", "a", "", "")>> \o tail,
              FALSE)

\* rows with two keys at each level, all rendered
WalkRows ==
    {Row("Theme", "T1", "theme", "", ""), Row("Theme", "T2", "theme", "", ""),
     Row("Goal", "G1", "goal", "", ""), Row("Goal", "G2", "goal", "", ""),
     Row("Initiative", "I1", "init", "Done", ""),
     Row("Initiative", "I2", "init", "Done", ""),
     Row("Lead", "L1", "lead", "", ""), Row("Lead", "L2", "lead", "", "")}

InitWalk ==
    \E tail \in SeqsUpTo(WalkRows, MaxWalk) :
        Start(<<Row("Theme", "T1", "theme", "", ""), Row("Goal", "G1", "goal", "", ""),
                Row("Initiative", "I1", "init", "Done", ""),
                Row("Initiative", "I2", "init", "Done", "")>> \o tail, FALSE)

\* rows in any order, with two Themes and two Goals
SiblingRows ==
    {Row("Theme", "T1", "theme", "", ""), Row("Theme", "T2", "theme", "", ""),
     Row("Goal", "G1", "goal", "", ""), Row("Goal", "G2", "goal", "", ""),
     Row("Initiative", "I1", "init", "Done", ""),
     Row("Initiative", "I2", "init", "To Do", ""),
     Row("Lead", "L1", "lead", "", "")}

InitSibling == \E d \in SeqsUpTo(SiblingRows, MaxLen) : Start(d, FALSE)

\* rows of every kind: each issue type, empty keys and status, untyped rows
AnyRows ==
    {Row("Theme", "T1", "theme", "", ""), Row("Theme", "", "theme", "", ""),
     Row("Goal", "G1", "goal", "", ""),
     Row("Initiative", "I1", "init", "Done", ""), Row("Initiative", "I1", "init", "", ""),
     Row("Lead", "L1", "lead", "", ""),
     Row("", "", END_SENTINEL, "", ""), Row("", "", "", "", ""),
     Row("Epic", "E1", "epic", "", "")}

InitAny == \E d \in SeqsUpTo(AnyRows, MaxAny) : Start(d, FALSE)

NextProcess == ProcessRow \/ ProcessReturn

\* process_data over rows with sibling Themes and Goals
SpecSibling == InitSibling /\ [][NextProcess]_vars

\* process_data over rows of every kind
SpecAny == InitAny /\ [][NextProcess]_vars

\* the same, with the program running on as long as it has a step to take
FairAny == SpecAny /\ WF_vars(NextProcess)

NextRender == ProcessRow \/ ProcessReturn \/ CreateWordDocument

\* a few rows for the whole run of main
MainRows ==
    {Row("Theme", "T1", "theme one", "", ""), Row("Goal", "G1", "goal one", "", ""),
     Row("Initiative", "I1", "one", "Done", ""), Row("Initiative", "I2", "two", "To Do", ""),
     Row("", "", END_SENTINEL, "", "")}

InitMain ==
    \E d \in SeqsUpTo(MainRows, MaxMain) :
        /\ data = d
        /\ i = 0
        /\ structured_data = <<>>
        /\ current_theme = None
        /\ current_goal = None
        /\ current_status = None
        /\ current_initiative = None
        /\ warnings = <<>>
        /\ pc = "main"
        /\ raised = ""
        /\ include_todo = FALSE
        /\ doc = <<>>
        /\ success = FALSE
        /\ log = <<>>

NextMain ==
    \/ MainStart
    \/ ProcessRow
    \/ ProcessReturn
    \/ CreateWordDocument
    \/ UpdateToc
    \/ ConvertDocxToPdf
    \/ ReportFailure
    \/ NextReport

\* main: both reports, one after the other
SpecMain == InitMain /\ [][NextMain]_vars

\* process_data, then create_word_document with either flag
SpecRender == InitRender /\ [][NextRender]_vars

\* process_data and rendering over Initiatives with date cells
SpecDates == InitDates /\ [][NextRender]_vars

\* process_data over rows that repeat keys
SpecDup == InitDup /\ [][NextProcess]_vars

\* process_data and rendering over rows with sibling keys at each level
SpecWalk == InitWalk /\ [][NextRender]_vars

\* process_data over rows in any order
SpecOrder == InitOrder /\ [][NextProcess]_vars

\* process_data over rows with untyped and unknown rows
SpecSkip == InitSkip /\ [][NextProcess]_vars

-----------------------------------------------------------------------------
(* Vocabulary of the properties *)

RowType(n) == data[n].issue_type

\* the local state of process_data just before row n is read
Before(n) == process_data(SubSeq(data, 1, n - 1))

\* row n is one of the four node rows and was taken without a warning
Accepted(n) ==
    LET b == Before(n)
        a == LoopBody(b, data[n])
    IN  /\ RowType(n) \in {"Theme", "Goal", "Initiative", "Lead"}
        /\ ~b.stop /\ b.raised = "" /\ a.raised = ""
        /\ a.warnings = b.warnings

\* the Initiative nodes of a hierarchy, each with the keys on its path
InitiativeNodes(sd) ==
    UNION {UNION {UNION {
        {[theme |-> sd[a].k, goal |-> sd[a].v.goals[b].k,
          status |-> sd[a].v.goals[b].v.statuses[c].k,
          key |-> sd[a].v.goals[b].v.statuses[c].v[d].k,
          node |-> sd[a].v.goals[b].v.statuses[c].v[d].v] :
            d \in 1..Len(sd[a].v.goals[b].v.statuses[c].v)} :
            c \in 1..Len(sd[a].v.goals[b].v.statuses)} :
            b \in 1..Len(sd[a].v.goals)} :
            a \in 1..Len(sd)}

\* the step about to be taken reads row i+1
Reading(type) == pc = "process_data" /\ i < Len(data) /\ RowType(i + 1) = type

-----------------------------------------------------------------------------
(* C1: when process_data has returned and row n of the input is an untyped  *)
(* row whose summary is 'Not an issue', no row after n was read, and the   *)
(* hierarchy, the cursors and the warnings are those process_data reaches  *)
(* on the rows before n alone.                                             *)
C1_SentinelEndsPass ==
    pc = "returned" =>
        \A n \in 1..Len(data) :
            IsSentinel(data[n]) =>
                LET p == process_data(SubSeq(data, 1, n - 1))
                IN  /\ i <= n
                    /\ structured_data = p.structured_data
                    /\ current_theme = p.current_theme
                    /\ current_goal = p.current_goal
                    /\ current_status = p.current_status
                    /\ current_initiative = p.current_initiative
                    /\ warnings = p.warnings

\* the pass ended at a sentinel that a Theme row follows, with a hierarchy built
C1_Witness ==
    /\ pc = "returned"
    /\ i >= 2 /\ i < Len(data)
    /\ IsSentinel(data[i])
    /\ RowType(i + 1) = "Theme"
    /\ structured_data # <<>>

(* C2 as stated: in the returned hierarchy every Initiative node has the   *)
(* key of exactly one Initiative row of the input, and its status group is *)
(* the Status of that row.                                                 *)
C2_ExactlyOneRow ==
    pc = "returned" =>
        \A nd \in InitiativeNodes(structured_data) :
            LET rows == {n \in 1..Len(data) :
                            RowType(n) = "Initiative" /\ data[n].key = nd.key}
            IN  /\ Cardinality(rows) = 1
                /\ \A n \in rows : data[n].status = nd.status

(* C2, amended: in the returned hierarchy every Initiative node has the   *)
(* key of at least one Initiative row that was read, whose Status is the   *)
(* status group that holds the node.                                       *)
C2_SomeRowWithKeyAndStatus ==
    pc = "returned" =>
        \A nd \in InitiativeNodes(structured_data) :
            \E n \in 1..i :
                /\ RowType(n) = "Initiative"
                /\ data[n].key = nd.key
                /\ data[n].status = nd.status

\* one key in two status groups of the same Goal
C2_Witness ==
    /\ pc = "returned"
    /\ \E n1, n2 \in InitiativeNodes(structured_data) :
        /\ n1.theme = n2.theme /\ n1.goal = n2.goal
        /\ n1.key = n2.key /\ n1.status # n2.status

(* C3: a Lead row read right after a Goal row leaves the hierarchy as it   *)
(* was (no Lead node is added) and logs exactly one warning, for that row. *)
C3_LeadAfterGoalDropped ==
    [][(Reading("Lead") /\ i >= 1 /\ RowType(i) = "Goal") =>
          /\ structured_data' = structured_data
          /\ pc' # "raised"
          /\ Len(warnings') = Len(warnings) + 1
          /\ warnings'[Len(warnings')].key = data[i + 1].key]_vars

\* Theme, Goal, Initiative accepted, then a Goal row and the Lead row after it
C3_Witness ==
    /\ i >= 5
    /\ RowType(i) = "Lead" /\ RowType(i - 1) = "Goal" /\ RowType(i - 2) = "Initiative"
    /\ Accepted(i - 1) /\ Accepted(i - 2)
    /\ Len(warnings) = 1
    /\ warnings[1].key = data[i].key

\* the last row among the first k of the given type that was accepted (0: none)
LastAccepted(type, k) ==
    LET S == {m \in 1..k : RowType(m) = type /\ Accepted(m)}
    IN  IF S = {} THEN 0 ELSE CHOOSE m \in S : \A x \in S : x <= m

\* after k rows an Initiative is open: one was accepted, and no Theme or Goal since
InitiativeOpenAt(k) ==
    LET m == LastAccepted("Initiative", k)
    IN  m > 0 /\ LastAccepted("Theme", k) < m /\ LastAccepted("Goal", k) < m

\* every entry of d with a key other than k is in d2 as it was, at its place
SameExcept(d, d2, k) ==
    /\ Len(d2) >= Len(d)
    /\ \A n \in 1..Len(d) : d[n].k # k => d2[n] = d[n]
    /\ \A n \in (Len(d) + 1)..Len(d2) : d2[n].k = k

\* the hierarchies differ at most inside Goal g of Theme t
ChangedOnlyInGoal(sd, sd2, t, g) ==
    /\ Has(sd, t) /\ Has(sd2, t)
    /\ SameExcept(sd, sd2, t)
    /\ Has(Get(sd, t).goals, g) /\ Has(Get(sd2, t).goals, g)
    /\ SameExcept(Get(sd, t).goals, Get(sd2, t).goals, g)

\* the hierarchies differ at most inside Initiative n of status s of Goal g of Theme t
ChangedOnlyInInitiative(sd, sd2, t, g, s, n) ==
    /\ ChangedOnlyInGoal(sd, sd2, t, g)
    /\ LET st1 == Get(Get(sd, t).goals, g).statuses
           st2 == Get(Get(sd2, t).goals, g).statuses
       IN  /\ Has(st1, s) /\ Has(st2, s)
           /\ SameExcept(st1, st2, s)
           /\ Has(Get(st1, s), n) /\ Has(Get(st2, s), n)
           /\ SameExcept(Get(st1, s), Get(st2, s), n)

\* the leads of Initiative n of status s of Goal g of Theme t
LeadsOf(sd, t, g, s, n) == Get(Get(Get(Get(sd, t).goals, g).statuses, s), n).leads

(* C4 as stated: a Lead row read while an Initiative is open (an           *)
(* Initiative row was accepted and no Theme or Goal row was accepted       *)
(* since) is attached to the leads of that Initiative and to nothing else, *)
(* with no warning, whatever the key and status of the Initiative.         *)
C4_LeadAttachedWhenInitiativeOpen ==
    [][(Reading("Lead") /\ InitiativeOpenAt(i)) =>
          LET m == LastAccepted("Initiative", i)
              t == data[LastAccepted("Theme", i)].key
              g == data[LastAccepted("Goal", i)].key
          IN  /\ warnings' = warnings
              /\ pc' # "raised"
              /\ ChangedOnlyInInitiative(structured_data, structured_data',
                                         t, g, data[m].status, data[m].key)
              /\ Has(LeadsOf(structured_data', t, g, data[m].status, data[m].key),
                     data[i + 1].key)]_vars

(* C5 as stated: a Goal row read after at least one Theme row is accepted  *)
(* (no warning) and makes a Goal node under the Theme of the last Theme    *)
(* row and under no other, whatever that Theme's key.                      *)
C5_GoalAcceptedAfterTheme ==
    [][(Reading("Goal") /\ \E m \in 1..i : RowType(m) = "Theme") =>
          LET t == data[LastAccepted("Theme", i)].key
          IN  /\ warnings' = warnings
              /\ pc' # "raised"
              /\ Has(structured_data', t)
              /\ Has(Get(structured_data', t).goals, data[i + 1].key)
              /\ SameExcept(structured_data, structured_data', t)
              /\ current_goal' = Some(data[i + 1].key)]_vars

(* C6: a Theme row unsets the goal, status and initiative cursors; an      *)
(* accepted Goal row unsets the status and initiative cursors; an accepted *)
(* Initiative row changes the hierarchy only inside the Goal of the last   *)
(* accepted Goal row, which comes after the last Theme row, under that     *)
(* Theme; an accepted Lead row changes it only inside the Initiative of    *)
(* the last accepted Initiative row, which comes after both.               *)
C6_CursorsResetNoStaleParent ==
    [][/\ Reading("Theme") =>
            /\ current_goal' = None
            /\ current_status' = None
            /\ current_initiative' = None
       /\ (Reading("Goal") /\ warnings' = warnings /\ pc' # "raised") =>
            /\ current_status' = None
            /\ current_initiative' = None
       /\ (Reading("Initiative") /\ warnings' = warnings) =>
            LET mt == LastAccepted("Theme", i)
                mg == LastAccepted("Goal", i)
            IN  /\ pc' # "raised"
                /\ 0 < mt /\ mt < mg
                /\ ChangedOnlyInGoal(structured_data, structured_data',
                                     data[mt].key, data[mg].key)
       /\ (Reading("Lead") /\ warnings' = warnings) =>
            LET mt == LastAccepted("Theme", i)
                mg == LastAccepted("Goal", i)
                mi == LastAccepted("Initiative", i)
            IN  /\ pc' # "raised"
                /\ 0 < mt /\ mt < mg /\ mg < mi
                /\ ChangedOnlyInInitiative(structured_data, structured_data',
                        data[mt].key, data[mg].key, data[mi].status, data[mi].key)]_vars

\* an Initiative was accepted under a second Goal or Theme while an Initiative
\* of an earlier Goal is still in the hierarchy
C6_Witness ==
    /\ i >= 5
    /\ RowType(i) = "Initiative" /\ Accepted(i)
    /\ LastAccepted("Initiative", i - 1) > 0
    /\ LastAccepted("Initiative", i - 1) < LastAccepted("Goal", i - 1)
    /\ Cardinality(InitiativeNodes(structured_data)) >= 2

(* C7: every pass over a finite row sequence ends with process_data        *)
(* returning: no step raises, each step of the loop consumes exactly the   *)
(* next row, and the pass returns at the end sentinel or after the last    *)
(* row.                                                                    *)
C7_PassCompletes ==
    /\ [](pc # "raised" /\ raised = "")
    /\ [][pc = "process_data" =>
            \/ i' = i + 1 /\ i' <= Len(data)
            \/ i' = i /\ i = Len(data) /\ pc' = "returned"]_vars
    /\ [](pc = "returned" => (i = Len(data) \/ (i >= 1 /\ IsSentinel(data[i]))))
    /\ <>(pc = "returned")

\* a pass that began with a Lead row, met an empty key and warned twice, returned
C7_Witness ==
    /\ pc = "returned"
    /\ i = Len(data) /\ i >= 4
    /\ RowType(1) = "Lead"
    /\ \E n \in 1..i : data[n].key = "" /\ RowType(n) = "Theme"
    /\ Len(warnings) >= 2

(* C8: a row that is skipped (it logs a warning, or it is untyped and not  *)
(* the end sentinel) leaves the hierarchy and the four cursors as they     *)
(* were and logs at most that one warning; a Goal row with no Theme row    *)
(* before it leaves the hierarchy empty and logs one warning.              *)
C8_SkippedRowChangesNothing ==
    [][/\ (/\ pc = "process_data" /\ i < Len(data)
           /\ \/ Len(warnings') > Len(warnings)
              \/ RowType(i + 1) = "" /\ ~IsSentinel(data[i + 1])) =>
            /\ UNCHANGED <<structured_data, current_theme, current_goal,
                           current_status, current_initiative>>
            /\ pc' = "process_data"
            /\ Len(warnings') <= Len(warnings) + 1
       /\ (Reading("Goal") /\ \A m \in 1..i : RowType(m) # "Theme") =>
            /\ structured_data' = <<>>
            /\ Len(warnings') = Len(warnings) + 1]_vars

\* an Initiative row was skipped with a Theme in the hierarchy
C8_Witness ==
    /\ i >= 2
    /\ RowType(i) = "Initiative" /\ ~Accepted(i)
    /\ structured_data # <<>>
    /\ Len(warnings) >= 1
    /\ warnings[Len(warnings)].key = data[i].key

-----------------------------------------------------------------------------
(* Vocabulary of the rendering properties *)

\* the status labels of the rows of the model
AllLabels == {"", "Done", "In Progress", "Next", "To Do", "Blocked"}

\* the places of the headings of the given levels in the document
HeadingsAt(levels) == {n \in 1..Len(doc) : doc[n].op = "heading" /\ doc[n].level \in levels}

\* the places of the status groups: each is a level 3 heading, its table follows
StatusGroups == HeadingsAt({3})

\* the label of the status group at n
LabelOf(n) == CHOOSE s \in AllLabels : doc[n].text = "Status: " \o s

\* the last heading of the given level before place n (0: none)
LastHeading(level, n) ==
    LET S == {m \in HeadingsAt({level}) : m < n}
    IN  IF S = {} THEN 0 ELSE CHOOSE m \in S : \A x \in S : x <= m

\* the status groups at a and b are in the section of one Goal
SameGoalSection(a, b) == \A m \in HeadingsAt({1, 2}) : ~(a < m /\ m < b)

\* a status group with label s is in the section of Goal g of Theme t
Emitted(t, g, s) ==
    \E n \in StatusGroups :
        LET mt == LastHeading(1, n)
            mg == LastHeading(2, n)
        IN  /\ 0 < mt /\ mt < mg
            /\ doc[mt].link = Some(t)
            /\ doc[mg].link = Some(g)
            /\ LabelOf(n) = s

\* the place of a label in the priority order Done, In Progress, Next, To Do
Rank(s) ==
    CASE s = "Done" -> 1
      [] s = "In Progress" -> 2
      [] s = "Next" -> 3
      [] s = "To Do" -> 4
      [] OTHER -> 0

\* the labels whose groups are rendered
Qualifying(flag) == {"Done", "In Progress", "Next"} \cup (IF flag THEN {"To Do"} ELSE {})

\* the rows of the example of section 8 of the specification
ExampleRows ==
    <<Row("Theme", "T1", "theme one", "", ""), Row("Goal", "G1", "goal one", "", ""),
      Row("Initiative", "I1", "one", "Done", "2024-01-15 00:00:00"),
      Row("Lead", "L1", "lead", "", ""),
      Row("Initiative", "I2", "two", "To Do", "N/A")>>

(* C9: in the rendered document, of two status groups in the section of    *)
(* one Goal the earlier has the earlier label in the order Done, In        *)
(* Progress, Next, To Do, whatever the order in which the statuses came    *)
(* into the Goal.                                                          *)
C9_StatusGroupsInPriorityOrder ==
    pc = "created" =>
        \A a, b \in StatusGroups :
            (a < b /\ SameGoalSection(a, b)) =>
                /\ Rank(LabelOf(a)) >= 1
                /\ Rank(LabelOf(a)) < Rank(LabelOf(b))

\* a Goal that received To Do, Next, In Progress, Done in this order, rendered
\* with the To Do group
C9_Witness ==
    /\ pc = "created"
    /\ include_todo
    /\ Keys(Get(Get(structured_data, "T1").goals, "G1").statuses)
         = <<"To Do", "Next", "In Progress", "Done">>
    /\ Cardinality(StatusGroups) = 4

(* C10: in the rendered document a status group is emitted for a Goal if   *)
(* and only if its label is Done, In Progress or Next, or To Do with the   *)
(* flag set, and the Goal holds at least one Initiative under that label;  *)
(* nothing else is emitted as a status group, and an emitted group lists   *)
(* the Initiatives of the hierarchy under that label with their leads. The *)
(* rows Theme T1, Goal G1, Initiative I1 Done, Lead L1, Initiative I2      *)
(* To Do with the flag false give one group, Done, with I1 and its lead L1. *)
C10_GroupEmittedIffQualifying ==
    pc = "created" =>
        /\ \A a \in 1..Len(structured_data) :
             \A b \in 1..Len(structured_data[a].v.goals) :
                \A s \in AllLabels :
                    LET statuses == structured_data[a].v.goals[b].v.statuses
                    IN  Emitted(structured_data[a].k, structured_data[a].v.goals[b].k, s)
                        <=> /\ s \in Qualifying(include_todo)
                            /\ Has(statuses, s)
                            /\ Get(statuses, s) # <<>>
        /\ \A n \in StatusGroups :
             LET t == doc[LastHeading(1, n)].link[1]
                 g == doc[LastHeading(2, n)].link[1]
                 group == Get(Get(Get(structured_data, t).goals, g).statuses, LabelOf(n))
             IN  /\ doc[n + 1].op = "table"
                 /\ Len(doc[n + 1].rows) = Len(group)
                 /\ \A r \in 1..Len(group) :
                      /\ doc[n + 1].rows[r].link = group[r].k
                      /\ [x \in 1..Len(group[r].v.leads) |-> doc[n + 1].rows[r].leads[x].link]
                           = Keys(group[r].v.leads)
        /\ Cardinality(StatusGroups) =
             Cardinality({<<x.theme, x.goal, x.status>> :
                            x \in {y \in InitiativeNodes(structured_data) :
                                      y.status \in Qualifying(include_todo)}})
        /\ (data = ExampleRows /\ ~include_todo) =>
             /\ Cardinality(StatusGroups) = 1
             /\ \A n \in StatusGroups :
                  /\ LabelOf(n) = "Done"
                  /\ Len(doc[n + 1].rows) = 1
                  /\ doc[n + 1].rows[1].link = "I1"
                  /\ Len(doc[n + 1].rows[1].leads) = 1
                  /\ doc[n + 1].rows[1].leads[1].link = "L1"
             /\ \E x \in InitiativeNodes(structured_data) :
                  x.key = "I2" /\ x.status = "To Do"

\* the example of the specification, rendered without the To Do group
C10_Witness ==
    /\ pc = "created"
    /\ ~include_todo
    /\ data = ExampleRows
    /\ Cardinality(StatusGroups) = 1

\* the Goal holds at least one Initiative under a label that is rendered
GoalHasContent(goal_data, flag) ==
    \E s \in Qualifying(flag) :
        Has(goal_data.statuses, s) /\ Get(goal_data.statuses, s) # <<>>

\* the Theme holds at least one Goal with content
ThemeHasContent(theme_data, flag) ==
    \E b \in 1..Len(theme_data.goals) : GoalHasContent(theme_data.goals[b].v, flag)

\* the places of the header of Theme t
ThemeHeaders(t) == {m \in HeadingsAt({1}) : doc[m].link = Some(t)}

\* the places of the header of Goal g in the section of Theme t
GoalHeaders(t, g) ==
    {m \in HeadingsAt({2}) :
        /\ doc[m].link = Some(g)
        /\ LastHeading(1, m) > 0
        /\ doc[LastHeading(1, m)].link = Some(t)}

(* C11: in the rendered document the header of a Theme stands exactly once *)
(* if the Theme has a Goal with a non-empty status group that is rendered, *)
(* and not at all otherwise; the header of a Goal stands exactly once in   *)
(* the section of its Theme if the Goal has such a group, and not at all   *)
(* otherwise. A header comes before the first status group of its Theme or *)
(* Goal: after the header of a Theme and its paragraph comes the header of *)
(* a Goal, after the header of a Goal and its paragraph comes a status     *)
(* group, and every status group is under a Goal header that is under a    *)
(* Theme header.                                                           *)
C11_HeadersOnceAndOnlyWithContent ==
    pc = "created" =>
        /\ \A a \in 1..Len(structured_data) :
             LET t == structured_data[a].k
                 theme_data == structured_data[a].v
             IN  /\ Cardinality(ThemeHeaders(t)) =
                        (IF ThemeHasContent(theme_data, include_todo) THEN 1 ELSE 0)
                 /\ \A b \in 1..Len(theme_data.goals) :
                        Cardinality(GoalHeaders(t, theme_data.goals[b].k)) =
                          (IF GoalHasContent(theme_data.goals[b].v, include_todo)
                           THEN 1 ELSE 0)
        /\ \A m \in HeadingsAt({1}) :
             /\ \E a \in 1..Len(structured_data) : doc[m].link = Some(structured_data[a].k)
             /\ m + 2 <= Len(doc)
             /\ doc[m + 2].op = "heading" /\ doc[m + 2].level = 2
        /\ \A m \in HeadingsAt({2}) :
             /\ LastHeading(1, m) > 0
             /\ Has(Get(structured_data, doc[LastHeading(1, m)].link[1]).goals, doc[m].link[1])
             /\ m + 2 <= Len(doc)
             /\ m + 2 \in StatusGroups
        /\ \A n \in StatusGroups :
             0 < LastHeading(1, n) /\ LastHeading(1, n) < LastHeading(2, n)

\* a Goal rendered with two status groups under one Goal header and one
\* Theme header, and a second Theme and a second Goal left out for want of
\* a group that is rendered
C11_Witness ==
    /\ pc = "created"
    /\ Cardinality(StatusGroups) >= 2
    /\ Cardinality(HeadingsAt({1})) = 1
    /\ Cardinality(HeadingsAt({2})) = 1
    /\ Len(structured_data) = 2
    /\ \E a \in 1..Len(structured_data) : Len(structured_data[a].v.goals) = 2

StoredDates(n, r) ==
    LET t == doc[LastHeading(1, n)].link[1]
        g == doc[LastHeading(2, n)].link[1]
        group == Get(Get(Get(structured_data, t).goals, g).statuses, LabelOf(n))
    IN  [start_date |-> group[r].v.start_date, due_date |-> group[r].v.due_date]

\* the string is not a timestamp of the fixed format
Unparseable(date_str) == date_str \notin DOMAIN Strptime

(* C13 as stated: in the rendered document, for every Initiative row of a  *)
(* table, a stored start date or due date that does not parse is shown as  *)
(* the stored string, and no error is raised.                              *)
C13_UnparseableDateShownUnchanged ==
    /\ raised = ""
    /\ pc = "created" =>
          \A n \in StatusGroups :
             \A r \in 1..Len(doc[n + 1].rows) :
                /\ Unparseable(StoredDates(n, r).start_date) =>
                      doc[n + 1].rows[r].start_date = StoredDates(n, r).start_date
                /\ Unparseable(StoredDates(n, r).due_date) =>
                      doc[n + 1].rows[r].due_date = StoredDates(n, r).due_date

(* C13 amended: a stored start date or due date that is not empty and does *)
(* not parse is shown as the stored string; an empty one is shown as       *)
(* Unknown; a timestamp of the fixed format is shown as day, month name,   *)
(* year; no error is raised.                                               *)
C13_NonEmptyUnparseableDateShownUnchanged ==
    /\ raised = ""
    /\ pc = "created" =>
          \A n \in StatusGroups :
             \A r \in 1..Len(doc[n + 1].rows) :
                \A f \in {"start_date", "due_date"} :
                   LET stored == StoredDates(n, r)[f]
                       shown == doc[n + 1].rows[r][f]
                   IN  /\ (Unparseable(stored) /\ stored # "") => shown = stored
                       /\ stored = "" => shown = "Unknown"
                       /\ ~Unparseable(stored) => shown = Strptime[stored]

\* a rendered Initiative with the start date N/A and a due date without
\* time, both shown as stored
C13_Witness ==
    /\ pc = "created"
    /\ \E n \in StatusGroups :
          \E r \in 1..Len(doc[n + 1].rows) :
             /\ StoredDates(n, r).start_date = "N/A"
             /\ StoredDates(n, r).due_date = "2024-01-15"
             /\ doc[n + 1].rows[r].start_date = "N/A"
             /\ doc[n + 1].rows[r].due_date = "2024-01-15"

\* the goals of the Theme under the theme cursor
GoalsOfCurrentTheme ==
    IF current_theme # None /\ Has(structured_data, current_theme[1])
    THEN Get(structured_data, current_theme[1]).goals ELSE <<>>

\* the statuses of the Goal under the theme and goal cursors
StatusesOfCurrentGoal ==
    IF current_goal # None /\ Has(GoalsOfCurrentTheme, current_goal[1])
    THEN Get(GoalsOfCurrentTheme, current_goal[1]).statuses ELSE <<>>

\* the Initiatives with status s of the Goal under the theme and goal cursors
GroupOfCurrentGoal(s) ==
    IF Has(StatusesOfCurrentGoal, s) THEN Get(StatusesOfCurrentGoal, s) ELSE <<>>

\* the Initiatives with status s of Goal g of Theme t in the hierarchy sd
GroupIn(sd, t, g, s) ==
    IF /\ Has(sd, t) /\ Has(Get(sd, t).goals, g)
       /\ Has(Get(Get(sd, t).goals, g).statuses, s)
    THEN Get(Get(Get(sd, t).goals, g).statuses, s) ELSE <<>>

\* the leads of the Initiative under the four cursors
LeadsOfCurrentInitiative ==
    IF /\ current_status # None /\ current_initiative # None
       /\ Has(GroupOfCurrentGoal(current_status[1]), current_initiative[1])
    THEN Get(GroupOfCurrentGoal(current_status[1]), current_initiative[1]).leads
    ELSE <<>>

\* the mapping d2 is d with the entry of key k replaced, in place, by node
ReplacedIn(d, d2, k, node) ==
    /\ Keys(d2) = Keys(d)
    /\ SameExcept(d, d2, k)
    /\ Get(d2, k) = node

(* C14: a row whose key is already in the scope it goes into replaces the  *)
(* node of that key, with no warning and no error. The scope is the        *)
(* hierarchy for a Theme row, the goals of the current Theme for a Goal    *)
(* row, the group of the row's status in the current Goal for an           *)
(* Initiative row, the leads of the current Initiative for a Lead row.     *)
(* After the row the node has the fields of the row and no goals, statuses *)
(* or leads; it stands where the earlier node stood, and every other node  *)
(* is as it was.                                                           *)
C14_DuplicateKeyReplacesNode ==
    [][/\ (Reading("Theme") /\ Has(structured_data, data[i + 1].key)) =>
            /\ warnings' = warnings /\ pc' # "raised"
            /\ ReplacedIn(structured_data, structured_data', data[i + 1].key,
                          [summary |-> data[i + 1].summary,
                           hebrew_summary |-> data[i + 1].hebrew_summary,
                           goals |-> <<>>])
       /\ (Reading("Goal") /\ Has(GoalsOfCurrentTheme, data[i + 1].key)) =>
            /\ warnings' = warnings /\ pc' # "raised"
            /\ current_theme' = current_theme
            /\ Keys(structured_data') = Keys(structured_data)
            /\ SameExcept(structured_data, structured_data', current_theme[1])
            /\ ReplacedIn(GoalsOfCurrentTheme, GoalsOfCurrentTheme', data[i + 1].key,
                          [summary |-> data[i + 1].summary,
                           hebrew_summary |-> data[i + 1].hebrew_summary,
                           description |-> data[i + 1].description,
                           statuses |-> <<>>])
       /\ (Reading("Initiative")
              /\ Has(GroupOfCurrentGoal(data[i + 1].status), data[i + 1].key)) =>
            /\ warnings' = warnings /\ pc' # "raised"
            /\ current_theme' = current_theme /\ current_goal' = current_goal
            /\ ChangedOnlyInGoal(structured_data, structured_data',
                                 current_theme[1], current_goal[1])
            /\ Keys(structured_data') = Keys(structured_data)
            /\ Keys(GoalsOfCurrentTheme') = Keys(GoalsOfCurrentTheme)
            /\ Keys(StatusesOfCurrentGoal') = Keys(StatusesOfCurrentGoal)
            /\ SameExcept(StatusesOfCurrentGoal, StatusesOfCurrentGoal', data[i + 1].status)
            /\ ReplacedIn(GroupOfCurrentGoal(data[i + 1].status),
                          GroupIn(structured_data', current_theme[1], current_goal[1],
                                  data[i + 1].status),
                          data[i + 1].key,
                          [summary |-> data[i + 1].summary,
                           hebrew_summary |-> data[i + 1].hebrew_summary,
                           description |-> data[i + 1].description,
                           start_date |-> data[i + 1].start_date,
                           due_date |-> data[i + 1].due_date,
                           leads |-> <<>>])
       /\ (Reading("Lead") /\ Has(LeadsOfCurrentInitiative, data[i + 1].key)) =>
            /\ warnings' = warnings /\ pc' # "raised"
            /\ current_theme' = current_theme /\ current_goal' = current_goal
            /\ current_status' = current_status
            /\ current_initiative' = current_initiative
            /\ ChangedOnlyInInitiative(structured_data, structured_data',
                                       current_theme[1], current_goal[1],
                                       current_status[1], current_initiative[1])
            /\ Keys(structured_data') = Keys(structured_data)
            /\ Keys(GoalsOfCurrentTheme') = Keys(GoalsOfCurrentTheme)
            /\ Keys(StatusesOfCurrentGoal') = Keys(StatusesOfCurrentGoal)
            /\ Keys(GroupIn(structured_data', current_theme[1], current_goal[1],
                            current_status[1]))
                 = Keys(GroupOfCurrentGoal(current_status[1]))
            /\ ReplacedIn(LeadsOfCurrentInitiative, LeadsOfCurrentInitiative',
                          data[i + 1].key,
                          [summary |-> data[i + 1].summary,
                           hebrew_summary |-> data[i + 1].hebrew_summary,
                           description |-> data[i + 1].description])]_vars

\* after Theme T1, Goal G1, Initiative I1, Lead L1 and a second Initiative
\* I1 of the same status: the node has the summary and the start date of the
\* second row, the lead is gone, nothing was warned
C14_Witness ==
    /\ i = 5
    /\ data[3] = Row("Initiative", "I1", "a", "Done", "")
    /\ data[4].issue_type = "Lead"
    /\ data[5] = Row("Initiative", "I1", "b", "Done", "N/A")
    /\ warnings = <<>>
    /\ Get(GroupOfCurrentGoal("Done"), "I1")
         = [summary |-> "b", hebrew_summary |-> "", description |-> "",
            start_date |-> "N/A", due_date |-> "", leads |-> <<>>]

\* the place in the log of the last call of save_document before place n (0: none)
LastSave(n) ==
    LET S == {m \in 1..(n - 1) : log[m].step = "save_document"}
    IN  IF S = {} THEN 0 ELSE CHOOSE m \in S : \A x \in S : x <= m

(* C15: in the run of main, a table-of-contents update or a PDF conversion *)
(* is done only if the last call of save_document before it was for the    *)
(* same report and doc.save returned; a call of save_document in which     *)
(* doc.save raised PermissionError or another exception returns False and  *)
(* is followed by the report of the failure and by neither follow-up step; *)
(* a call in which doc.save returned returns True.                         *)
C15_FollowUpsOnlyAfterSuccessfulSave ==
    \A n \in 1..Len(log) :
        /\ log[n].step \in {"update_toc", "convert_docx_to_pdf"} =>
              /\ LastSave(n) > 0
              /\ log[LastSave(n)].outcome = "saved"
              /\ log[LastSave(n)].include_todo = log[n].include_todo
        /\ log[n].step = "convert_docx_to_pdf" =>
              /\ n > 1
              /\ log[n - 1] = [step |-> "update_toc", include_todo |-> log[n].include_todo]
        /\ (log[n].step = "save_document" /\ log[n].outcome # "saved") =>
              IF n = Len(log)
              THEN pc = "created" /\ ~success
              ELSE log[n + 1] = [step |-> "failed", include_todo |-> log[n].include_todo]
        /\ (log[n].step = "save_document" /\ log[n].outcome = "saved") =>
              IF n = Len(log)
              THEN pc = "created" /\ success
              ELSE log[n + 1] = [step |-> "update_toc", include_todo |-> log[n].include_todo]
        /\ log[n].step = "failed" =>
              /\ n > 1
              /\ log[n - 1].step = "save_document"
              /\ log[n - 1].outcome # "saved"

\* a run of main in which the save of the first report raised and the save
\* of the second returned: the failure of the first is reported and only the
\* second report has the follow-up steps
C15_Witness ==
    /\ pc = "exit"
    /\ log = <<[step |-> "save_document", include_todo |-> FALSE, outcome |-> "Exception"],
               [step |-> "failed", include_todo |-> FALSE],
               [step |-> "save_document", include_todo |-> TRUE, outcome |-> "saved"],
               [step |-> "update_toc", include_todo |-> TRUE],
               [step |-> "convert_docx_to_pdf", include_todo |-> TRUE]>>

\* the keys from the Theme down to the node that the accepted row n inserts;
\* the path of an Initiative has the status of the row before the key
Path(n) ==
    LET a == LoopBody(Before(n), data[n])
    IN  CASE RowType(n) = "Theme" -> <<data[n].key>>
          [] RowType(n) = "Goal" -> <<a.current_theme[1], data[n].key>>
          [] RowType(n) = "Initiative" ->
                <<a.current_theme[1], a.current_goal[1], data[n].status, data[n].key>>
          [] OTHER ->
                <<a.current_theme[1], a.current_goal[1], a.current_status[1],
                  a.current_initiative[1], data[n].key>>

\* for each row its path, or the empty path for a row that inserted nothing
RowPaths == [n \in 1..Len(data) |-> IF Accepted(n) THEN Path(n) ELSE <<>>]

\* the rows that inserted a node with the path p, paths being RowPaths
Inserted(paths, p) == {n \in 1..Len(paths) : p # <<>> /\ paths[n] = p}

\* the least element of a set of row numbers (0: the set is empty)
Least(S) == IF S = {} THEN 0 ELSE CHOOSE m \in S : \A x \in S : m <= x

\* the first row that inserted a node with the path p
FirstInserted(paths, p) == Least(Inserted(paths, p))

\* the last row that inserted a node with the path p (0: none, or p is empty)
LastInserted(paths, p) ==
    LET S == Inserted(paths, p)
    IN  IF S = {} THEN 0 ELSE CHOOSE m \in S : \A x \in S : x <= m

\* the first row that inserted a node with the path p after the last row that
\* inserted the node with the path opener
FirstInsertedSince(paths, p, opener) ==
    Least({n \in Inserted(paths, p) : n > LastInserted(paths, opener)})

\* the nodes in the rendered document: the path of each, the scope in which
\* it has siblings, the path of the node whose row opens that scope, and its
\* place among the siblings
Rendered ==
    {[path |-> <<doc[m].link[1]>>, scope |-> <<>>, opener |-> <<>>, place |-> m] :
        m \in HeadingsAt({1})}
    \cup
    {[path |-> <<doc[LastHeading(1, m)].link[1], doc[m].link[1]>>,
      scope |-> <<doc[LastHeading(1, m)].link[1]>>,
      opener |-> <<doc[LastHeading(1, m)].link[1]>>, place |-> m] :
        m \in HeadingsAt({2})}
    \cup
    UNION {LET t == doc[LastHeading(1, n)].link[1]
               g == doc[LastHeading(2, n)].link[1]
               s == LabelOf(n)
               rows == doc[n + 1].rows
           IN  {[path |-> <<t, g, s, rows[r].link>>, scope |-> <<t, g, s>>,
                 opener |-> <<t, g>>, place |-> r] : r \in 1..Len(rows)}
               \cup
               UNION {{[path |-> <<t, g, s, rows[r].link, rows[r].leads[x].link>>,
                        scope |-> <<t, g, s, rows[r].link>>,
                        opener |-> <<t, g, s, rows[r].link>>, place |-> x] :
                          x \in 1..Len(rows[r].leads)} : r \in 1..Len(rows)} :
           n \in StatusGroups}

(* C16 as stated: of two rendered nodes with the same parent (two Themes,  *)
(* two Goals of a Theme, two Initiatives of a status group, two Leads of   *)
(* an Initiative) the one comes first whose key was first inserted under   *)
(* the keys of that parent by the earlier row, also when a later row       *)
(* repeats a key.                                                          *)
C16_SiblingsInFirstInsertionOrder ==
    pc = "created" =>
        LET paths == RowPaths
        IN  \A x, y \in Rendered :
                (x.scope = y.scope /\ x.path # y.path) =>
                    /\ FirstInserted(paths, x.path) > 0
                    /\ x.place < y.place <=>
                          FirstInserted(paths, x.path) < FirstInserted(paths, y.path)

(* C16 amended: of two rendered nodes with the same parent the one comes   *)
(* first whose key was first inserted by the earlier row among the rows    *)
(* after the last row that opened the parent (the last Theme row with the  *)
(* key of the Theme for its Goals, the last Goal row of that Goal for the  *)
(* Initiatives of its groups, the last Initiative row of that Initiative   *)
(* for its Leads; every row for the Themes). A key that a later row        *)
(* repeats under the same open parent keeps its place.                     *)
C16_SiblingsInInsertionOrderSinceParentOpened ==
    pc = "created" =>
        LET paths == RowPaths
        IN  \A x, y \in Rendered :
                (x.scope = y.scope /\ x.path # y.path) =>
                    /\ FirstInsertedSince(paths, x.path, x.opener) > 0
                    /\ x.place < y.place <=>
                          FirstInsertedSince(paths, x.path, x.opener)
                            < FirstInsertedSince(paths, y.path, y.opener)

\* after the four opening rows the row of Initiative I1 comes again: the
\* table of the group lists I1 before I2 as before
C16_Witness ==
    /\ pc = "created"
    /\ Len(data) >= 5
    /\ data[5] = Row("Initiative", "I1", "init", "Done", "")
    /\ \E n \in StatusGroups :
          [r \in 1..Len(doc[n + 1].rows) |-> doc[n + 1].rows[r].link] = <<"I1", "I2">>
    /\ Cardinality(Inserted(RowPaths, <<"T1", "G1", "Done", "I1">>)) >= 2

(* C17: after every row the cursors agree with the hierarchy. A theme     *)
(* cursor that is set names a Theme of the hierarchy; a goal cursor that   *)
(* is set comes with a theme cursor that is set and names a Goal of that   *)
(* Theme; an initiative cursor that is set comes with theme, goal and      *)
(* status cursors that are set and names an Initiative of the group of the *)
(* status cursor in that Goal; the status cursor is set exactly when the   *)
(* initiative cursor is. No lookup of process_data fails: no KeyError is   *)
(* raised.                                                                 *)
C17_CursorsConsistentWithHierarchy ==
    /\ pc # "raised" /\ raised = ""
    /\ current_theme # None => Has(structured_data, current_theme[1])
    /\ current_goal # None =>
          /\ current_theme # None
          /\ Has(GoalsOfCurrentTheme, current_goal[1])
    /\ current_initiative # None =>
          /\ current_theme # None /\ current_goal # None /\ current_status # None
          /\ Has(StatusesOfCurrentGoal, current_status[1])
          /\ Has(GroupOfCurrentGoal(current_status[1]), current_initiative[1])
    /\ current_status # None <=> current_initiative # None

\* all four cursors set after a Theme row that came a second time, with a
\* Lead attached to the Initiative under the cursors
C17_Witness ==
    /\ current_theme # None /\ current_goal # None
    /\ current_status # None /\ current_initiative # None
    /\ LeadsOfCurrentInitiative # <<>>
    /\ Cardinality({n \in 1..i : RowType(n) = "Theme"}) >= 2

====
